---- MODULE Spec2Model ----
(***************************************************************************)
(* Model of goware/breaker: the exponential-backoff retry loops            *)
(* Breaker.Do (breaker.go) and ExpBackoffRetry (retry.go).                 *)
(*                                                                         *)
(* An error value is modelled by its cause chain: the sequence of the      *)
(* errors that errors.Is can find in it.  The nil error is the empty       *)
(* chain.  A duration is an integer number of time units; the float64      *)
(* delay is the exact dyadic rational delayNum / delayDen (factor is a     *)
(* multiple of one half, so float64 arithmetic is exact within the         *)
(* bounds).                                                                *)
(***************************************************************************)
EXTENDS Integers, Sequences, FiniteSets, TLC

VARIABLES b, callers, fnName, pc, ctx, delayNum, delayDen, try, trace,
          results, ret, exit, lastSlow, prev

vars == <<b, callers, fnName, pc, ctx, delayNum, delayDen, try, trace,
          results, ret, exit, lastSlow, prev>>

----------------------------------------------------------------------------
(* Bounds *)

MaxTriesBound == 3
MaxBackoff == 1
MaxAttempts == 3
MaxTriesConc == 1

Calls == {"c1", "c2"}
MaxTriesVals == -1 .. MaxTriesBound
Backoffs == 0 .. MaxBackoff
FactorHalves == {0, 3, 4}

----------------------------------------------------------------------------
(* Errors *)

Nil == << >>
ErrFatal == "breaker: fatal error"
ErrHitMaxRetries == "breaker: hit max retries"
ErrExhaustedRetries == "breaker: exhausted all retry attempts"

Is(err, target) == \E i \in DOMAIN err : err[i] = target

SuperrNew(sentinel, cause) == <<sentinel>> \o cause

(* What fn may return: two plain errors, the bare fatal sentinel and a       *)
(* fatal error wrapping a cause.  fn's own errors do not wrap the sentinel  *)
(* that Do synthesizes.                                                     *)
FnErrors == { <<"e1">>, <<"e2">>, <<ErrFatal>>, <<"e1", ErrFatal>> }
FnResults == {Nil} \cup FnErrors

CtxErrs == {"context canceled", "context deadline exceeded"}
CtxLive == "live"

----------------------------------------------------------------------------
(* Helpers *)

Trunc(num, den) == IF num >= 0 THEN num \div den ELSE -((-num) \div den)

Ev(op, d, t, e) == [op |-> op, d |-> d, try |-> t, err |-> e]

RECURSIVE CountOp(_, _)
CountOp(s, op) ==
    IF s = << >> THEN 0
    ELSE (IF s[1].op = op THEN 1 ELSE 0) + CountOp(Tail(s), op)

New(log, backoff, factor, maxTries) ==
    [log |-> log, backoff |-> backoff, factor |-> factor, maxTries |-> maxTries]

Append1(f, c, e) == [f EXCEPT ![c] = Append(@, e)]

----------------------------------------------------------------------------
(* Breaker.Do *)

CtxDoneFirstOnly(c) == ctx[c] # CtxLive /\ try[c] = 0

CtxDoneNever(c) == FALSE

CtxDone(c) == ctx[c] # CtxLive

CtxErrNil(c) == Nil

CtxErr(c) == <<ctx[c]>>

IsFatalBareOnly(err) == err = <<ErrFatal>>

IsFatal(err) == Is(err, ErrFatal)

ExhaustedOnlyLogged(t, maxTries) == b.log /\ t >= maxTries

ExhaustedEarly(t, maxTries) == t + 1 >= maxTries

ExhaustedLate(t, maxTries) == t > maxTries

Exhausted(t, maxTries) == t >= maxTries

HitMaxRetriesBare(err) == <<ErrHitMaxRetries>>

HitMaxRetries(err) == SuperrNew(ErrHitMaxRetries, err)

LogErrorfAsWarn(log, t) == IF log THEN <<Ev("Warnf", 0, t, Nil)>> ELSE << >>

LogErrorfAfterWarn(log, t) ==
    IF log THEN <<Ev("Warnf", 0, t, Nil), Ev("Errorf", 0, t, Nil)>> ELSE << >>

LogErrorf(log, t) == IF log THEN <<Ev("Errorf", 0, t, Nil)>> ELSE << >>

LogWarnfAfterFirst(log, d, t, err) ==
    IF log /\ t > 1 THEN <<Ev("Warnf", d, t, err)>> ELSE << >>

LogWarnf(log, d, t, err) == IF log THEN <<Ev("Warnf", d, t, err)>> ELSE << >>

(* A mutation: every return re-checks the context first. *)
ReturnCtxFirst(c, err, site) ==
    /\ pc' = [pc EXCEPT ![c] = "done"]
    /\ ret' = [ret EXCEPT ![c] = IF ctx[c] # CtxLive THEN <<ctx[c]>> ELSE err]
    /\ exit' = [exit EXCEPT ![c] = IF ctx[c] # CtxLive THEN "cancelled" ELSE site]

Return(c, err, site) ==
    /\ pc' = [pc EXCEPT ![c] = "done"]
    /\ ret' = [ret EXCEPT ![c] = err]
    /\ exit' = [exit EXCEPT ![c] = site]

StartTryCarried(c) == try[c]

StartTry(c) == 0

Enter(c, name) ==
    /\ c \in callers
    /\ pc[c] \in {"idle", "done"}
    /\ fnName' = [fnName EXCEPT ![c] = name]
    /\ pc' = [pc EXCEPT ![c] = "top"]
    /\ \E cx \in {CtxLive} \cup CtxErrs :
         /\ ctx' = [ctx EXCEPT ![c] = cx]
         /\ trace' = [trace EXCEPT ![c] =
                IF cx = CtxLive THEN << >> ELSE <<Ev("cancel", 0, 0, Nil)>>]
    /\ delayNum' = [delayNum EXCEPT ![c] = b.backoff]
    /\ delayDen' = [delayDen EXCEPT ![c] = 1]
    /\ try' = [try EXCEPT ![c] = StartTry(c)]
    /\ results' = [results EXCEPT ![c] = << >>]
    /\ ret' = [ret EXCEPT ![c] = Nil]
    /\ exit' = [exit EXCEPT ![c] = "none"]
    /\ lastSlow' = [lastSlow EXCEPT ![c] = FALSE]
    /\ prev' = [prev EXCEPT ![c] =
          IF name = "Do" /\ fnName[c] = "Do" /\ pc[c] = "done"
          THEN exit[c] ELSE "none"]
    /\ UNCHANGED <<b, callers>>

DoCall(c) == Enter(c, "Do")

(* The select and the call of fn that follows it are one step: an attempt    *)
(* is in flight from the moment the select takes its default branch, and a  *)
(* cancellation after that moment is a cancellation during the attempt.     *)
DoSelect(c) ==
    /\ fnName[c] = "Do"
    /\ pc[c] = "top"
    /\ IF CtxDone(c)
       THEN /\ Return(c, CtxErr(c), "cancelled")
            /\ UNCHANGED trace
       ELSE /\ pc' = [pc EXCEPT ![c] = "fn"]
            /\ trace' = Append1(trace, c, Ev("fn", 0, try[c], Nil))
            /\ UNCHANGED <<ret, exit>>
    /\ UNCHANGED <<b, callers, fnName, ctx, delayNum, delayDen, try, results,
                   lastSlow, prev>>

(* The retry state with which Breaker.Do goes on after an attempt that     *)
(* failed: the code does not read the clock, so the time the attempt took  *)
(* (slow: longer than twice the base backoff) leaves delay and try alone.  *)
DoRetryStateReset(c, slow) ==
    IF slow THEN <<b.backoff, 1, 0>> ELSE <<delayNum[c], delayDen[c], try[c]>>

DoRetryState(c, slow) == <<delayNum[c], delayDen[c], try[c]>>

DoFnReturn(c) ==
    /\ fnName[c] = "Do"
    /\ pc[c] = "fn"
    /\ \E err \in FnResults, slow \in BOOLEAN :
         /\ results' = Append1(results, c, err)
         /\ lastSlow' = [lastSlow EXCEPT ![c] = slow]
         /\ IF err = Nil
            THEN /\ Return(c, Nil, "success")
                 /\ UNCHANGED <<trace, delayNum, delayDen, try>>
            ELSE IF IsFatal(err)
            THEN /\ Return(c, err, "fatal")
                 /\ UNCHANGED <<trace, delayNum, delayDen, try>>
            ELSE LET st == DoRetryState(c, slow)
                 IN  /\ delayNum' = [delayNum EXCEPT ![c] = st[1]]
                     /\ delayDen' = [delayDen EXCEPT ![c] = st[2]]
                     /\ try' = [try EXCEPT ![c] = st[3]]
                     /\ IF Exhausted(st[3], b.maxTries)
                        THEN /\ trace' = [trace EXCEPT ![c] =
                                    @ \o LogErrorf(b.log, b.maxTries)]
                             /\ Return(c, HitMaxRetries(err), "exhausted")
                        ELSE /\ trace' = [trace EXCEPT ![c] =
                                    @ \o LogWarnf(b.log, Trunc(st[1], st[2]), st[3] + 1, err)
                                      \o <<Ev("Sleep", Trunc(st[1], st[2]), st[3], Nil)>>]
                             /\ pc' = [pc EXCEPT ![c] = "sleep"]
                             /\ UNCHANGED <<ret, exit>>
    /\ UNCHANGED <<b, callers, fnName, ctx, prev>>

(* A mutation: try kept in the shared Breaker instead of in the call. *)
DoWakeShared(c) ==
    /\ fnName[c] = "Do"
    /\ pc[c] = "sleep"
    /\ delayNum' = [delayNum EXCEPT ![c] = @ * b.factor]
    /\ delayDen' = [delayDen EXCEPT ![c] = @ * 2]
    /\ try' = [x \in Calls |-> IF x \in callers THEN try[c] + 1 ELSE try[x]]
    /\ pc' = [pc EXCEPT ![c] = "top"]
    /\ UNCHANGED <<b, callers, fnName, ctx, trace, results, ret, exit,
                   lastSlow, prev>>

(* A mutation: delay *= b.factor forgotten. *)
DoWakeNoGrowth(c) ==
    /\ fnName[c] = "Do"
    /\ pc[c] = "sleep"
    /\ delayNum' = [delayNum EXCEPT ![c] = @ * 2]
    /\ delayDen' = [delayDen EXCEPT ![c] = @ * 2]
    /\ try' = [try EXCEPT ![c] = @ + 1]
    /\ pc' = [pc EXCEPT ![c] = "top"]
    /\ UNCHANGED <<b, callers, fnName, ctx, trace, results, ret, exit,
                   lastSlow, prev>>

DoWake(c) ==
    /\ fnName[c] = "Do"
    /\ pc[c] = "sleep"
    /\ delayNum' = [delayNum EXCEPT ![c] = @ * b.factor]
    /\ delayDen' = [delayDen EXCEPT ![c] = @ * 2]
    /\ try' = [try EXCEPT ![c] = @ + 1]
    /\ pc' = [pc EXCEPT ![c] = "top"]
    /\ UNCHANGED <<b, callers, fnName, ctx, trace, results, ret, exit,
                   lastSlow, prev>>

----------------------------------------------------------------------------
(* ExpBackoffRetry *)

RetryCall(c) == Enter(c, "ExpBackoffRetry")

RetryCtxReturnErr(c) == <<ctx[c]>>

RetryCtxReturn(c) == Nil

RetrySelect(c) ==
    /\ fnName[c] = "ExpBackoffRetry"
    /\ pc[c] = "top"
    /\ IF CtxDone(c)
       THEN /\ Return(c, RetryCtxReturn(c), "cancelled")
            /\ UNCHANGED trace
       ELSE /\ CountOp(trace[c], "fn") < MaxAttempts
            /\ pc' = [pc EXCEPT ![c] = "fn"]
            /\ trace' = Append1(trace, c, Ev("fn", 0, try[c], Nil))
            /\ UNCHANGED <<ret, exit>>
    /\ UNCHANGED <<b, callers, fnName, ctx, delayNum, delayDen, try, results,
                   lastSlow, prev>>

(* The retry state after a failed attempt: reset when the attempt took     *)
(* longer than twice the base backoff (slow).                              *)
RetryStateNoReset(c, slow) == <<delayNum[c], delayDen[c], try[c]>>

RetryState(c, slow) ==
    IF slow THEN <<b.backoff, 1, 0>> ELSE <<delayNum[c], delayDen[c], try[c]>>

RetryFnReturn(c) ==
    /\ fnName[c] = "ExpBackoffRetry"
    /\ pc[c] = "fn"
    /\ \E err \in FnResults, slow \in BOOLEAN :
         /\ results' = Append1(results, c, err)
         /\ lastSlow' = [lastSlow EXCEPT ![c] = slow]
         /\ IF err = Nil
            THEN /\ Return(c, Nil, "success")
                 /\ UNCHANGED <<trace, delayNum, delayDen, try>>
            ELSE LET st == RetryState(c, slow)
                     dn == st[1]
                     dd == st[2]
                     t  == st[3]
                 IN  /\ delayNum' = [delayNum EXCEPT ![c] = dn]
                     /\ delayDen' = [delayDen EXCEPT ![c] = dd]
                     /\ try' = [try EXCEPT ![c] = t]
                     /\ IF t >= b.maxTries
                        THEN /\ trace' = [trace EXCEPT ![c] =
                                    @ \o LogWarnf(b.log, Trunc(dn, dd), t + 1, err)
                                      \o LogErrorf(b.log, b.maxTries)]
                             /\ Return(c, SuperrNew(ErrExhaustedRetries, err), "exhausted")
                        ELSE /\ trace' = [trace EXCEPT ![c] =
                                    @ \o LogWarnf(b.log, Trunc(dn, dd), t + 1, err)
                                      \o <<Ev("Sleep", Trunc(dn, dd), t, Nil)>>]
                             /\ pc' = [pc EXCEPT ![c] = "sleep"]
                             /\ UNCHANGED <<ret, exit>>
    /\ UNCHANGED <<b, callers, fnName, ctx, prev>>

RetryWake(c) ==
    /\ fnName[c] = "ExpBackoffRetry"
    /\ pc[c] = "sleep"
    /\ delayNum' = [delayNum EXCEPT ![c] = @ * b.factor]
    /\ delayDen' = [delayDen EXCEPT ![c] = @ * 2]
    /\ try' = [try EXCEPT ![c] = @ + 1]
    /\ pc' = [pc EXCEPT ![c] = "top"]
    /\ UNCHANGED <<b, callers, fnName, ctx, trace, results, ret, exit,
                   lastSlow, prev>>

----------------------------------------------------------------------------
(* The caller's side of the context: cancel() or the deadline firing. *)

Cancel(c) ==
    /\ pc[c] \in {"top", "fn", "sleep"}
    /\ ctx[c] = CtxLive
    /\ \E e \in CtxErrs : ctx' = [ctx EXCEPT ![c] = e]
    /\ trace' = Append1(trace, c, Ev("cancel", 0, try[c], Nil))
    /\ UNCHANGED <<b, callers, fnName, pc, delayNum, delayDen, try, results,
                   ret, exit, lastSlow, prev>>

----------------------------------------------------------------------------

InitCalls ==
    /\ fnName = [c \in Calls |-> "none"]
    /\ pc = [c \in Calls |-> "idle"]
    /\ ctx = [c \in Calls |-> CtxLive]
    /\ delayNum = [c \in Calls |-> 0]
    /\ delayDen = [c \in Calls |-> 1]
    /\ try = [c \in Calls |-> 0]
    /\ trace = [c \in Calls |-> << >>]
    /\ results = [c \in Calls |-> << >>]
    /\ ret = [c \in Calls |-> Nil]
    /\ exit = [c \in Calls |-> "none"]
    /\ lastSlow = [c \in Calls |-> FALSE]
    /\ prev = [c \in Calls |-> "none"]

Init ==
    /\ \E log \in BOOLEAN, backoff \in Backoffs, factor \in FactorHalves,
          maxTries \in MaxTriesVals :
         b = New(log, backoff, factor, maxTries)
    /\ callers = {"c1"}
    /\ InitCalls

Next ==
    \E c \in Calls :
       \/ DoCall(c)
       \/ DoSelect(c)
       \/ DoFnReturn(c)
       \/ DoWake(c)
       \/ RetryCall(c)
       \/ RetrySelect(c)
       \/ RetryFnReturn(c)
       \/ RetryWake(c)
       \/ Cancel(c)

Spec == Init /\ [][Next]_vars

(* Breaker.Do alone, every invocation of fn and every sleep returning. *)
NextDo ==
    \E c \in Calls :
       \/ DoCall(c)
       \/ DoSelect(c)
       \/ DoFnReturn(c)
       \/ DoWake(c)
       \/ Cancel(c)

FairSpec ==
    /\ Init
    /\ [][NextDo]_vars
    /\ \A c \in Calls :
          WF_vars(DoSelect(c)) /\ WF_vars(DoFnReturn(c)) /\ WF_vars(DoWake(c))

(* Two goroutines, each calling Do once on one shared Breaker. *)
DoCallOnce(c) == pc[c] = "idle" /\ DoCall(c)

InitConc ==
    /\ \E log \in BOOLEAN, backoff \in Backoffs, factor \in FactorHalves,
          maxTries \in 0 .. MaxTriesConc :
         b = New(log, backoff, factor, maxTries)
    /\ callers = Calls
    /\ InitCalls

NextConc ==
    \E c \in Calls :
       \/ DoCallOnce(c)
       \/ DoSelect(c)
       \/ DoFnReturn(c)
       \/ DoWake(c)
       \/ Cancel(c)

SpecConc == InitConc /\ [][NextConc]_vars

TypeOK ==
    /\ pc \in [Calls -> {"idle", "top", "fn", "sleep", "done"}]
    /\ \A c \in Calls : try[c] \in Nat /\ delayDen[c] >= 1

----------------------------------------------------------------------------
(* Observations of one call *)

IsDo(c) == fnName[c] = "Do"
Done(c) == pc[c] = "done"
Running(c) == pc[c] \in {"top", "fn", "sleep"}
Invocations(c) == CountOp(trace[c], "fn")
Warnings(c) == CountOp(trace[c], "Warnf")
ErrorLogs(c) == CountOp(trace[c], "Errorf")
Sleeps(c) == CountOp(trace[c], "Sleep")
NeverCancelled(c) == CountOp(trace[c], "cancel") = 0
Last(s) == s[Len(s)]
NonFatal(err) == err # Nil /\ ~Is(err, ErrFatal)
AllNonFatal(rs) == \A i \in DOMAIN rs : NonFatal(rs[i])
FailsThenNil(rs) ==
    /\ Len(rs) >= 1
    /\ Last(rs) = Nil
    /\ \A i \in 1 .. (Len(rs) - 1) : NonFatal(rs[i])

----------------------------------------------------------------------------
(* C1: with maxTries = N >= 0 and a context that is never cancelled, a     *)
(* Breaker.Do call whose fn returned a non-fatal error every time has, when *)
(* it returns, invoked fn exactly N+1 times and returns the                 *)
(* ErrHitMaxRetries error; it does not return before that; with N = 0 that  *)
(* is one invocation, no warning and no sleep.                              *)
Theorem_C1 ==
    \A c \in Calls :
       (IsDo(c) /\ b.maxTries >= 0 /\ NeverCancelled(c) /\ AllNonFatal(results[c])) =>
          /\ Invocations(c) <= b.maxTries + 1
          /\ Done(c) =>
               /\ Invocations(c) = b.maxTries + 1
               /\ Is(ret[c], ErrHitMaxRetries)
               /\ exit[c] = "exhausted"
               /\ b.maxTries = 0 => (Warnings(c) = 0 /\ Sleeps(c) = 0)
          /\ (Len(results[c]) <= b.maxTries /\ pc[c] # "idle") => Running(c)

Witness_C1 ==
    \E c \in Calls :
       /\ IsDo(c) /\ Done(c) /\ NeverCancelled(c) /\ AllNonFatal(results[c])
       /\ b.maxTries >= 2
       /\ Invocations(c) = b.maxTries + 1
       /\ Is(ret[c], ErrHitMaxRetries)

(* C2: with a context that is never cancelled, a Breaker.Do call whose fn   *)
(* returned non-fatal errors on attempts 1..k-1 and nil on attempt k        *)
(* (k <= maxTries+1) invoked fn exactly k times, logged k-1 warnings (none  *)
(* without a logger) and no error, and returned nil; and the call is not    *)
(* given up before attempt k.                                               *)
Theorem_C2 ==
    \A c \in Calls :
       (IsDo(c) /\ NeverCancelled(c)) =>
          /\ (Done(c) /\ FailsThenNil(results[c])) =>
                /\ Invocations(c) = Len(results[c])
                /\ Len(results[c]) <= b.maxTries + 1 \/ Len(results[c]) = 1
                /\ Warnings(c) = IF b.log THEN Len(results[c]) - 1 ELSE 0
                /\ ErrorLogs(c) = 0
                /\ ret[c] = Nil
          /\ (AllNonFatal(results[c]) /\ Len(results[c]) >= 1
                 /\ Len(results[c]) <= b.maxTries /\ pc[c] # "fn") =>
                /\ pc[c] \in {"sleep", "top"}
                /\ Warnings(c) = IF b.log THEN Len(results[c]) ELSE 0

Witness_C2 ==
    \E c \in Calls :
       /\ IsDo(c) /\ Done(c) /\ NeverCancelled(c) /\ b.log
       /\ FailsThenNil(results[c])
       /\ Len(results[c]) = b.maxTries + 1
       /\ Len(results[c]) >= 3
       /\ Warnings(c) = Len(results[c]) - 1
       /\ ret[c] = Nil

(* C3: whenever fn returns an error matching ErrFatal (bare or wrapped), on *)
(* any attempt and with any budget left, Breaker.Do has returned that same  *)
(* error: the invocation is the last event of the call (no log, no sleep,   *)
(* no further invocation), and the returned error matches ErrFatal and not  *)
(* ErrHitMaxRetries.                                                        *)
Theorem_C3 ==
    \A c \in Calls :
       (IsDo(c) /\ results[c] # << >> /\ Is(Last(results[c]), ErrFatal)) =>
          /\ Done(c)
          /\ exit[c] = "fatal"
          /\ ret[c] = Last(results[c])
          /\ Is(ret[c], ErrFatal)
          /\ ~Is(ret[c], ErrHitMaxRetries)
          /\ Invocations(c) = Len(results[c])
          /\ \A i \in DOMAIN trace[c] :
                trace[c][i].op \in {"Warnf", "Errorf", "Sleep"} =>
                   \E j \in DOMAIN trace[c] : j > i /\ trace[c][j].op = "fn"
          /\ Warnings(c) = IF b.log THEN Len(results[c]) - 1 ELSE 0
          /\ Sleeps(c) = Len(results[c]) - 1
          /\ ErrorLogs(c) = 0

Witness_C3 ==
    \E c \in Calls :
       /\ IsDo(c) /\ Done(c)
       /\ Len(results[c]) >= 2
       /\ Last(results[c]) = <<"e1", ErrFatal>>
       /\ try[c] < b.maxTries
       /\ ret[c] = <<"e1", ErrFatal>>

(* C4: a Breaker.Do call whose context is already cancelled when it is      *)
(* called never invokes fn, logs nothing and never sleeps, and returns the  *)
(* context's own error, non-nil and unwrapped.                              *)
PreCancelled(c) == trace[c] # << >> /\ trace[c][1].op = "cancel"

Theorem_C4 ==
    \A c \in Calls :
       (IsDo(c) /\ PreCancelled(c)) =>
          /\ Invocations(c) = 0
          /\ Warnings(c) = 0 /\ ErrorLogs(c) = 0 /\ Sleeps(c) = 0
          /\ results[c] = << >>
          /\ pc[c] \in {"top", "done"}
          /\ Done(c) =>
               /\ ctx[c] \in CtxErrs
               /\ ret[c] = <<ctx[c]>>
               /\ ret[c] # Nil
               /\ exit[c] = "cancelled"

Witness_C4 ==
    \E c \in Calls :
       /\ IsDo(c) /\ Done(c) /\ PreCancelled(c)
       /\ ret[c] = <<"context canceled">>
       /\ Invocations(c) = 0

(* C5: when Breaker.Do returns because the budget is exhausted, the error   *)
(* matches ErrHitMaxRetries and its chain is the sentinel followed by the   *)
(* error of the last invocation of fn, so every error of that last chain is *)
(* found in it.                                                             *)
Theorem_C5 ==
    \A c \in Calls :
       (IsDo(c) /\ Done(c) /\ exit[c] = "exhausted") =>
          /\ Is(ret[c], ErrHitMaxRetries)
          /\ results[c] # << >>
          /\ ret[c] = <<ErrHitMaxRetries>> \o Last(results[c])
          /\ \A i \in DOMAIN Last(results[c]) : Is(ret[c], Last(results[c])[i])

Witness_C5 ==
    \E c \in Calls :
       /\ IsDo(c) /\ Done(c) /\ exit[c] = "exhausted"
       /\ Len(results[c]) >= 2
       /\ results[c][1] = <<"e1">>
       /\ Last(results[c]) = <<"e2">>
       /\ Is(ret[c], "e2") /\ ~Is(ret[c], "e1")

(* C6: with a logger and maxTries >= 0, a Breaker.Do call that was never    *)
(* cancelled and whose fn always failed non-fatally has logged, when it     *)
(* returns, exactly maxTries warnings and then one error; any call logs at  *)
(* most one error, and has logged it exactly when it has returned the       *)
(* ErrHitMaxRetries error.                                                  *)
Theorem_C6 ==
    \A c \in Calls :
       (IsDo(c) /\ b.log) =>
          /\ ErrorLogs(c) <= 1
          /\ ErrorLogs(c) = 1 <=>
                (Done(c) /\ exit[c] = "exhausted" /\ Is(ret[c], ErrHitMaxRetries))
          /\ (Done(c) /\ b.maxTries >= 0 /\ NeverCancelled(c)
                 /\ AllNonFatal(results[c])) =>
                /\ Warnings(c) = b.maxTries
                /\ ErrorLogs(c) = 1
                /\ Last(trace[c]).op = "Errorf"

Witness_C6 ==
    \E c \in Calls :
       /\ IsDo(c) /\ Done(c) /\ b.log /\ NeverCancelled(c)
       /\ b.maxTries = 3
       /\ AllNonFatal(results[c])
       /\ Warnings(c) = 3 /\ ErrorLogs(c) = 1

(* C7: whatever fn returns and whenever the context is cancelled, a         *)
(* Breaker.Do call invokes fn at most max(maxTries, 0) + 1 times, and, when *)
(* every invocation of fn and every sleep returns, the call returns with    *)
(* success, the fatal error, the ErrHitMaxRetries error or the context's    *)
(* error.                                                                   *)
OutcomeOK(c) ==
    \/ exit[c] = "success" /\ ret[c] = Nil
    \/ exit[c] = "fatal" /\ Is(ret[c], ErrFatal)
    \/ exit[c] = "exhausted" /\ Is(ret[c], ErrHitMaxRetries)
    \/ exit[c] = "cancelled" /\ ret[c] = <<ctx[c]>> /\ ctx[c] \in CtxErrs

MaxInvocations == (IF b.maxTries > 0 THEN b.maxTries ELSE 0) + 1

Theorem_C7 ==
    /\ [](\A c \in Calls : IsDo(c) => Invocations(c) <= MaxInvocations)
    /\ \A c \in Calls :
          (IsDo(c) /\ Running(c)) ~> (IsDo(c) /\ Done(c) /\ OutcomeOK(c))

Witness_C7 ==
    \E c \in Calls :
       /\ IsDo(c) /\ Done(c) /\ OutcomeOK(c)
       /\ b.maxTries < 0
       /\ Invocations(c) = 1
       /\ exit[c] = "exhausted"

(* C8: a run of either retry loop returns nil only if its last invocation   *)
(* of the operation returned nil; in particular a run that never invoked    *)
(* the operation does not return nil.                                       *)
Claim_C8 ==
    \A c \in Calls :
       (Done(c) /\ ret[c] = Nil) =>
          /\ results[c] # << >>
          /\ Last(results[c]) = Nil

(* C9: at the top of every iteration of Breaker.Do, the first or a later    *)
(* one, a cancelled context makes the call return the context's error: the  *)
(* step taken there invokes nothing and logs nothing.                       *)
Theorem_C9 ==
    [][\A c \in Calls :
          (IsDo(c) /\ pc[c] = "top" /\ ctx[c] # CtxLive /\ pc'[c] # "top") =>
             /\ pc'[c] = "done"
             /\ exit'[c] = "cancelled"
             /\ ret'[c] = <<ctx[c]>>
             /\ trace'[c] = trace[c]
             /\ results'[c] = results[c]]_vars

Witness_C9 ==
    \E c \in Calls :
       /\ IsDo(c) /\ Done(c) /\ exit[c] = "cancelled"
       /\ Invocations(c) >= 2
       /\ Len(trace[c]) >= 2
       /\ Last(trace[c]).op = "cancel"
       /\ trace[c][Len(trace[c]) - 1].op = "Sleep"
       /\ ret[c] = <<"context deadline exceeded">>

(* C10 as stated: once the context has been cancelled during a Breaker.Do   *)
(* call, the call starts no invocation of fn and no sleep.                  *)
Claim_C10 ==
    \A c \in Calls :
       IsDo(c) =>
          \A i, j \in DOMAIN trace[c] :
             (i < j /\ trace[c][i].op = "cancel") =>
                trace[c][j].op \notin {"fn", "Sleep"}

(* C10 as amended: once the context has been cancelled during a Breaker.Do  *)
(* call, the call starts no invocation of fn; it starts at most one sleep,  *)
(* and only when the cancellation arrived while an invocation was in        *)
(* flight (that invocation then failed with a retryable error and budget    *)
(* left).                                                                   *)
Theorem_C10 ==
    \A c \in Calls :
       IsDo(c) =>
          \A i \in DOMAIN trace[c] :
             trace[c][i].op = "cancel" =>
                /\ \A j \in DOMAIN trace[c] : j > i => trace[c][j].op # "fn"
                /\ Cardinality({j \in DOMAIN trace[c] :
                                   j > i /\ trace[c][j].op = "Sleep"}) <= 1
                /\ \A j \in DOMAIN trace[c] :
                      (j > i /\ trace[c][j].op = "Sleep") =>
                         /\ i > 1
                         /\ trace[c][i - 1].op = "fn"
                         /\ NonFatal(results[c][Invocations(c)])
                         /\ trace[c][j].try < b.maxTries

Witness_C10 ==
    \E c \in Calls :
       /\ IsDo(c) /\ Done(c) /\ exit[c] = "cancelled"
       /\ \E i, j \in DOMAIN trace[c] :
             /\ i < j
             /\ trace[c][i].op = "cancel"
             /\ trace[c][j].op = "Sleep"
       /\ Invocations(c) = 1

----------------------------------------------------------------------------
(* What one Breaker.Do call does when it runs alone, as a function of the   *)
(* Breaker's backoff, factor and maxTries and of the results rs that fn     *)
(* returned: the invocations and sleeps, and the outcome.  The logger does  *)
(* not occur in these definitions.                                          *)

RECURSIVE Pow(_, _)
Pow(x, n) == IF n <= 0 THEN 1 ELSE x * Pow(x, n - 1)

(* The delay in force at the j-th retry: backoff * factor^(j-1), as an      *)
(* integer duration.                                                        *)
DelayOfRetry(j) == Trunc(b.backoff * Pow(b.factor, j - 1), Pow(2, j - 1))

Retried(rs, i) == NonFatal(rs[i]) /\ i - 1 < b.maxTries

RECURSIVE SoloEvents(_, _)
SoloEvents(rs, i) ==
    IF i > Len(rs) THEN << >>
    ELSE <<Ev("fn", 0, i - 1, Nil)>> \o
         (IF Retried(rs, i)
          THEN <<Ev("Sleep", DelayOfRetry(i), i - 1, Nil)>> \o SoloEvents(rs, i + 1)
          ELSE << >>)

SoloOutcome(rs, cerr) ==
    IF rs = << >> THEN <<"cancelled", <<cerr>> >>
    ELSE IF Last(rs) = Nil THEN <<"success", Nil>>
    ELSE IF Is(Last(rs), ErrFatal) THEN <<"fatal", Last(rs)>>
    ELSE IF Len(rs) - 1 >= b.maxTries
         THEN <<"exhausted", <<ErrHitMaxRetries>> \o Last(rs)>>
    ELSE <<"cancelled", <<cerr>> >>

IsLog(e) == e.op \in {"Warnf", "Errorf"}
NotLogNotCancel(e) == e.op \notin {"Warnf", "Errorf", "cancel"}
NotCancel(e) == e.op # "cancel"
InFlight(c) == IF pc[c] = "fn" THEN <<Ev("fn", 0, Len(results[c]), Nil)>> ELSE << >>

(* C11: the invocations of fn, the sleeps and the outcome of a Breaker.Do   *)
(* call are those of the logger-free description above, whether the         *)
(* Breaker has a logger or not; a Breaker without a logger logs nothing.    *)
Theorem_C11 ==
    \A c \in Calls :
       IsDo(c) =>
          /\ SelectSeq(trace[c], NotLogNotCancel) =
                SoloEvents(results[c], 1) \o InFlight(c)
          /\ Done(c) => <<exit[c], ret[c]>> = SoloOutcome(results[c], ctx[c])
          /\ ~b.log => (Warnings(c) = 0 /\ ErrorLogs(c) = 0)
          /\ b.log => (Warnings(c) = Sleeps(c)
                        /\ ErrorLogs(c) = IF Done(c) /\ exit[c] = "exhausted"
                                          THEN 1 ELSE 0)

Witness_C11 ==
    \E c \in Calls :
       /\ IsDo(c) /\ Done(c) /\ ~b.log
       /\ exit[c] = "exhausted"
       /\ Invocations(c) >= 3
       /\ Sleeps(c) = Invocations(c) - 1
       /\ Warnings(c) = 0 /\ ErrorLogs(c) = 0

(* The same with the log calls a Breaker with a logger makes. *)
RECURSIVE SoloTrace(_, _)
SoloTrace(rs, i) ==
    IF i > Len(rs) THEN << >>
    ELSE <<Ev("fn", 0, i - 1, Nil)>> \o
         (IF Retried(rs, i)
          THEN (IF b.log THEN <<Ev("Warnf", DelayOfRetry(i), i, rs[i])>> ELSE << >>)
               \o <<Ev("Sleep", DelayOfRetry(i), i - 1, Nil)>>
               \o SoloTrace(rs, i + 1)
          ELSE IF NonFatal(rs[i]) /\ b.log
          THEN <<Ev("Errorf", 0, b.maxTries, Nil)>>
          ELSE << >>)

LocalsOf(c) ==
    <<fnName[c], pc[c], ctx[c], delayNum[c], delayDen[c], try[c], trace[c],
      results[c], ret[c], exit[c], lastSlow[c], prev[c]>>

(* C12: when two calls of Do run concurrently on one shared Breaker, under  *)
(* every interleaving each call's invocations, log calls, delays and        *)
(* outcome are those of the call run alone on its own fn results; a step of *)
(* one call changes nothing of the other call, and no step writes the       *)
(* Breaker.                                                                 *)
SoloLike(c) ==
    /\ SelectSeq(trace[c], NotCancel) = SoloTrace(results[c], 1) \o InFlight(c)
    /\ Done(c) => <<exit[c], ret[c]>> = SoloOutcome(results[c], ctx[c])
    /\ try[c] = Sleeps(c) - (IF pc[c] = "sleep" THEN 1 ELSE 0)
    /\ delayNum[c] = b.backoff * Pow(b.factor, try[c])
    /\ delayDen[c] = Pow(2, try[c])

Theorem_C12 ==
    /\ [](\A c \in Calls : IsDo(c) => SoloLike(c))
    /\ [][/\ b' = b
          /\ \A c, d \in Calls :
                (c # d /\ LocalsOf(c)' # LocalsOf(c)) => LocalsOf(d)' = LocalsOf(d)]_vars

Witness_C12 ==
    /\ IsDo("c1") /\ IsDo("c2")
    /\ pc["c1"] = "sleep" /\ try["c1"] = 0
    /\ pc["c2"] = "fn" /\ try["c2"] = 1
    /\ results["c1"] # results["c2"]

(* C13: no step of Breaker.Do writes the Breaker, and every call, the first *)
(* on a Breaker or one made after an earlier call on it returned (with any  *)
(* outcome), starts with delay = backoff and try = 0: in every state of a   *)
(* call, try counts the sleeps this call has finished and delay is backoff  *)
(* multiplied by factor that many times.                                    *)
Theorem_C13 ==
    /\ [][b' = b]_vars
    /\ [][\A c \in Calls :
             (pc[c] \in {"idle", "done"} /\ pc'[c] = "top" /\ fnName'[c] = "Do") =>
                /\ delayNum'[c] = b.backoff
                /\ delayDen'[c] = 1
                /\ try'[c] = 0]_vars
    /\ [](\A c \in Calls :
             IsDo(c) =>
                /\ try[c] = Sleeps(c) - (IF pc[c] = "sleep" THEN 1 ELSE 0)
                /\ delayNum[c] * Pow(2, try[c]) =
                      delayDen[c] * b.backoff * Pow(b.factor, try[c]))

Witness_C13 ==
    \E c \in Calls :
       /\ IsDo(c) /\ prev[c] = "exhausted"
       /\ b.maxTries >= 2 /\ b.backoff > 0 /\ b.factor > 2
       /\ pc[c] = "top"
       /\ Invocations(c) = 0
       /\ try[c] = 0 /\ delayNum[c] = b.backoff /\ delayDen[c] = 1

IsSleep(e) == e.op = "Sleep"
SleepsOf(c) == SelectSeq(trace[c], IsSleep)

(* C14: in Breaker.Do the time an attempt takes does not touch the retry    *)
(* state: for a call that is never cancelled and whose fn always fails      *)
(* non-fatally (maxTries >= 0), whether or not an attempt lasted longer     *)
(* than twice the base backoff, try after the k-th failure is k-1, the      *)
(* delays are the geometric sequence, and the call ends exhausted after     *)
(* maxTries+1 invocations with maxTries warnings and one error log.         *)
Theorem_C14 ==
    \A c \in Calls :
       (IsDo(c) /\ b.maxTries >= 0 /\ NeverCancelled(c) /\ AllNonFatal(results[c])
           /\ results[c] # << >>) =>
          /\ pc[c] = "sleep" => try[c] = Len(results[c]) - 1
          /\ \A j \in DOMAIN SleepsOf(c) :
                /\ SleepsOf(c)[j].d = DelayOfRetry(j)
                /\ SleepsOf(c)[j].try = j - 1
          /\ Done(c) =>
                /\ exit[c] = "exhausted"
                /\ Invocations(c) = b.maxTries + 1
                /\ Sleeps(c) = b.maxTries
                /\ Warnings(c) = IF b.log THEN b.maxTries ELSE 0
                /\ ErrorLogs(c) = IF b.log THEN 1 ELSE 0

Witness_C14 ==
    \E c \in Calls :
       /\ IsDo(c) /\ Done(c) /\ NeverCancelled(c) /\ AllNonFatal(results[c])
       /\ lastSlow[c]
       /\ b.maxTries >= 2
       /\ exit[c] = "exhausted"
       /\ Invocations(c) = b.maxTries + 1

IsRetry(c) == fnName[c] = "ExpBackoffRetry"
AllFail(rs) == \A i \in DOMAIN rs : rs[i] # Nil

(* C15: for maxTries >= 0, a never-cancelled ExpBackoffRetry call whose fn  *)
(* keeps failing invokes fn at most maxTries+1 times (with maxTries = 1:    *)
(* one retry) and, when it returns, returns an error matching               *)
(* ErrExhaustedRetries after exactly maxTries+1 invocations.                *)
Claim_C15 ==
    \A c \in Calls :
       (IsRetry(c) /\ b.maxTries >= 0 /\ NeverCancelled(c) /\ AllFail(results[c])) =>
          /\ Invocations(c) <= b.maxTries + 1
          /\ Done(c) =>
                /\ Is(ret[c], ErrExhaustedRetries)
                /\ Invocations(c) = b.maxTries + 1

(* C16 as stated: the j-th sleep of a Breaker.Do call lasts exactly         *)
(* backoff * factor^(j-1), and the warning before it reports that delay.    *)
Claim_C16 ==
    \A c \in Calls :
       IsDo(c) =>
          \A j \in DOMAIN SleepsOf(c) :
             SleepsOf(c)[j].d * Pow(2, j - 1) = b.backoff * Pow(b.factor, j - 1)

(* C16 as amended: the j-th sleep of a Breaker.Do call lasts                *)
(* backoff * factor^(j-1) truncated toward zero to a whole duration, with   *)
(* no cap; with a logger, the warning logged just before that sleep reports *)
(* the same truncated delay and the attempt number j.                       *)
Theorem_C16 ==
    \A c \in Calls :
       IsDo(c) =>
          /\ \A j \in DOMAIN SleepsOf(c) :
                /\ SleepsOf(c)[j].d =
                      Trunc(b.backoff * Pow(b.factor, j - 1), Pow(2, j - 1))
                /\ SleepsOf(c)[j].d * Pow(2, j - 1) <= b.backoff * Pow(b.factor, j - 1)
                /\ (SleepsOf(c)[j].d + 1) * Pow(2, j - 1) > b.backoff * Pow(b.factor, j - 1)
          /\ \A i \in DOMAIN trace[c] :
                (trace[c][i].op = "Sleep" /\ b.log) =>
                   /\ i > 1
                   /\ trace[c][i - 1].op = "Warnf"
                   /\ trace[c][i - 1].d = trace[c][i].d
                   /\ trace[c][i - 1].try = trace[c][i].try + 1

Witness_C16 ==
    \E c \in Calls :
       /\ IsDo(c) /\ b.log
       /\ b.backoff = 1 /\ b.factor = 3
       /\ Len(SleepsOf(c)) >= 3
       /\ SleepsOf(c)[1].d = 1
       /\ SleepsOf(c)[2].d = 1
       /\ SleepsOf(c)[3].d = 2

(* C17: the events of a Breaker.Do call, cancellation aside, are ordered    *)
(* attempt, warning, sleep, attempt, ...: the first event is an invocation; *)
(* every later invocation directly follows a sleep; every sleep directly    *)
(* follows the one warning of the failed invocation before it (with a       *)
(* logger; without one it directly follows the invocation); every warning   *)
(* is directly followed by a sleep; and a call that ended in success, fatal *)
(* error or exhaustion has no warning and no sleep after its last           *)
(* invocation.                                                              *)
EventsOf(c) == SelectSeq(trace[c], NotCancel)

Theorem_C17 ==
    \A c \in Calls :
       IsDo(c) =>
          LET T == EventsOf(c)
          IN  /\ T # << >> => T[1].op = "fn"
              /\ \A i \in DOMAIN T :
                    /\ (T[i].op = "fn" /\ i > 1) => T[i - 1].op = "Sleep"
                    /\ T[i].op = "Sleep" =>
                          IF b.log
                          THEN i > 2 /\ T[i - 1].op = "Warnf" /\ T[i - 2].op = "fn"
                          ELSE i > 1 /\ T[i - 1].op = "fn"
                    /\ T[i].op = "Warnf" =>
                          /\ i > 1 /\ T[i - 1].op = "fn"
                          /\ i < Len(T) /\ T[i + 1].op = "Sleep"
                    /\ T[i].op = "Errorf" =>
                          i > 1 /\ T[i - 1].op = "fn" /\ i = Len(T)
              /\ (Done(c) /\ exit[c] \in {"success", "fatal", "exhausted"}) =>
                    /\ T # << >>
                    /\ Last(T).op \in {"fn", "Errorf"}
              /\ Invocations(c) >= 1 =>
                    /\ Sleeps(c) \in {Invocations(c) - 1, Invocations(c)}
                    /\ Warnings(c) = IF b.log THEN Sleeps(c) ELSE 0

Witness_C17 ==
    \E c \in Calls :
       /\ IsDo(c) /\ Done(c) /\ b.log /\ exit[c] = "fatal"
       /\ Len(EventsOf(c)) = 7
       /\ EventsOf(c)[5].op = "Warnf"
       /\ EventsOf(c)[6].op = "Sleep"
       /\ EventsOf(c)[7].op = "fn"

(* C18: in ExpBackoffRetry, a failing attempt that took longer than twice   *)
(* the base backoff resets the retry state before the budget check: the     *)
(* sleep that follows lasts exactly backoff with try = 0 and delay =        *)
(* backoff, and the call is exhausted at that failure exactly when          *)
(* 0 >= maxTries.                                                           *)
SlowFailure(c) ==
    /\ IsRetry(c) /\ lastSlow[c]
    /\ results[c] # << >> /\ Last(results[c]) # Nil

Theorem_C18 ==
    \A c \in Calls :
       SlowFailure(c) =>
          /\ pc[c] = "sleep" =>
                /\ try[c] = 0
                /\ delayNum[c] = b.backoff /\ delayDen[c] = 1
                /\ Last(SleepsOf(c)).d = b.backoff
                /\ Last(SleepsOf(c)).try = 0
                /\ b.maxTries > 0
                /\ b.log => (EventsOf(c)[Len(EventsOf(c)) - 1].op = "Warnf"
                             /\ EventsOf(c)[Len(EventsOf(c)) - 1].d = b.backoff
                             /\ EventsOf(c)[Len(EventsOf(c)) - 1].try = 1)
          /\ (Done(c) /\ exit[c] = "exhausted") => b.maxTries <= 0
          /\ (b.maxTries <= 0 /\ pc[c] # "fn") =>
                (Done(c) /\ exit[c] = "exhausted" /\ Invocations(c) = 1)

Witness_C18 ==
    \E c \in Calls :
       /\ SlowFailure(c) /\ pc[c] = "sleep"
       /\ b.backoff = 1 /\ b.factor = 4
       /\ Len(results[c]) = 2
       /\ Len(SleepsOf(c)) = 2
       /\ SleepsOf(c)[1].d = 1 /\ SleepsOf(c)[1].try = 0
       /\ SleepsOf(c)[2].d = 1 /\ SleepsOf(c)[2].try = 0
       /\ try[c] = 0

(* C19: in ExpBackoffRetry, an iteration that begins with the context       *)
(* cancelled (before the first attempt or after a sleep) returns nil        *)
(* without invoking fn and without logging, so a cancelled call and a       *)
(* successful one return the same value.                                    *)
Theorem_C19 ==
    /\ [][\A c \in Calls :
             (IsRetry(c) /\ pc[c] = "top" /\ ctx[c] # CtxLive /\ pc'[c] # "top") =>
                /\ pc'[c] = "done"
                /\ exit'[c] = "cancelled"
                /\ ret'[c] = Nil
                /\ trace'[c] = trace[c]
                /\ results'[c] = results[c]]_vars
    /\ [](\A c \in Calls :
             (IsRetry(c) /\ Done(c)) =>
                (ret[c] = Nil <=> exit[c] \in {"cancelled", "success"}))

Witness_C19 ==
    \E c \in Calls :
       /\ IsRetry(c) /\ Done(c) /\ exit[c] = "cancelled"
       /\ ret[c] = Nil
       /\ Invocations(c) >= 1
       /\ Last(results[c]) # Nil
       /\ Last(EventsOf(c)).op = "Sleep"

(* C20: in Breaker.Do a cancellation that arrives while an attempt is in    *)
(* flight does not replace that attempt's result: a nil result returns nil, *)
(* a fatal error is returned as it is, a failure with the budget exhausted  *)
(* returns the ErrHitMaxRetries error; the context's error is returned only *)
(* by the check at the top of an iteration, before the first invocation or  *)
(* after a sleep.                                                           *)
CancelledInFlight(c) ==
    \E i \in DOMAIN trace[c] :
       i > 1 /\ trace[c][i].op = "cancel" /\ trace[c][i - 1].op = "fn"

Theorem_C20 ==
    \A c \in Calls :
       IsDo(c) =>
          /\ (Done(c) /\ exit[c] = "cancelled") =>
                /\ ret[c] = <<ctx[c]>>
                /\ Invocations(c) = 0 \/ Last(EventsOf(c)).op = "Sleep"
          /\ (CancelledInFlight(c) /\ pc[c] # "fn") =>
                LET r == Last(results[c])
                IN  /\ Len(results[c]) = Invocations(c)
                    /\ r = Nil => (Done(c) /\ exit[c] = "success" /\ ret[c] = Nil)
                    /\ Is(r, ErrFatal) => (Done(c) /\ exit[c] = "fatal" /\ ret[c] = r)
                    /\ (NonFatal(r) /\ Len(results[c]) - 1 >= b.maxTries) =>
                          /\ Done(c) /\ exit[c] = "exhausted"
                          /\ ret[c] = <<ErrHitMaxRetries>> \o r
                    /\ (NonFatal(r) /\ Len(results[c]) - 1 < b.maxTries) =>
                          /\ Last(EventsOf(c)).op = "Sleep"
                          /\ Done(c) => exit[c] = "cancelled"

Witness_C20 ==
    \E c \in Calls :
       /\ IsDo(c) /\ Done(c) /\ CancelledInFlight(c)
       /\ Invocations(c) >= 2
       /\ Last(trace[c]).op = "cancel"
       /\ exit[c] = "success" /\ ret[c] = Nil

====
